---- MODULE Spec2Model ----
(***************************************************************************)
(* Model of cse-kms-go (src/main.go): a one-shot CLI that downloads S3     *)
(* objects to local files, or uploads local files to S3, through the S3    *)
(* encryption client.  Strings are sequences of one-character strings so   *)
(* that the path and key functions are computed, not assumed.  The host    *)
(* is a Unix build (filepath.Separator = "/").                             *)
(***************************************************************************)
EXTENDS Integers, Sequences, FiniteSets, TLC

(* ------------------------------------------------------------------ *)
(* Bounds                                                             *)
(* ------------------------------------------------------------------ *)
\* largest number of member keys in one listing / regular files in one tree
MaxItems == 2

(* ------------------------------------------------------------------ *)
(* strings and path/filepath                                          *)
(* ------------------------------------------------------------------ *)
Separator == "/"

Slash == <<"/">>

Dot == <<".">>

DotDot == <<".", ".">>

HasSuffix(s, suffix) ==
    /\ Len(s) >= Len(suffix)
    /\ SubSeq(s, Len(s) - Len(suffix) + 1, Len(s)) = suffix

HasPrefix(s, prefix) ==
    /\ Len(s) >= Len(prefix)
    /\ SubSeq(s, 1, Len(prefix)) = prefix

TrimPrefix(s, prefix) ==
    IF HasPrefix(s, prefix) THEN SubSeq(s, Len(prefix) + 1, Len(s)) ELSE s

\* the segments of s between separators, empty segments included
RECURSIVE SplitFrom(_, _, _)
SplitFrom(s, i, cur) ==
    IF i > Len(s) THEN <<cur>>
    ELSE IF s[i] = Separator THEN <<cur>> \o SplitFrom(s, i + 1, <<>>)
    ELSE SplitFrom(s, i + 1, Append(cur, s[i]))

Split(s) == SplitFrom(s, 1, <<>>)

RECURSIVE JoinSegs(_)
JoinSegs(segs) ==
    IF Len(segs) = 0 THEN <<>>
    ELSE IF Len(segs) = 1 THEN segs[1]
    ELSE segs[1] \o Slash \o JoinSegs(Tail(segs))

\* the lexical processing of filepath.Clean, one path element at a time
RECURSIVE CleanSegs(_, _, _)
CleanSegs(segs, out, rooted) ==
    IF Len(segs) = 0 THEN out
    ELSE LET e == Head(segs)
             rest == Tail(segs)
         IN IF e = <<>> \/ e = Dot THEN CleanSegs(rest, out, rooted)
            ELSE IF e = DotDot
                 THEN IF Len(out) > 0 /\ out[Len(out)] # DotDot
                      THEN CleanSegs(rest, SubSeq(out, 1, Len(out) - 1), rooted)
                      ELSE IF rooted THEN CleanSegs(rest, out, rooted)
                      ELSE CleanSegs(rest, Append(out, e), rooted)
            ELSE CleanSegs(rest, Append(out, e), rooted)

Clean(path) ==
    IF path = <<>> THEN Dot
    ELSE LET rooted == path[1] = Separator
             body == JoinSegs(CleanSegs(Split(path), <<>>, rooted))
         IN IF rooted THEN Slash \o body
            ELSE IF body = <<>> THEN Dot ELSE body

\* filepath.Join of two elements
Join(a, b) ==
    IF a # <<>> THEN Clean(a \o Slash \o b)
    ELSE IF b # <<>> THEN Clean(b)
    ELSE <<>>

RECURSIVE StripTrailingSlashes(_)
StripTrailingSlashes(s) ==
    IF Len(s) > 0 /\ s[Len(s)] = Separator
    THEN StripTrailingSlashes(SubSeq(s, 1, Len(s) - 1))
    ELSE s

\* index of the last separator of s, 0 when there is none
RECURSIVE LastSep(_, _)
LastSep(s, i) ==
    IF i = 0 THEN 0 ELSE IF s[i] = Separator THEN i ELSE LastSep(s, i - 1)

Base(path) ==
    IF path = <<>> THEN Dot
    ELSE LET p == StripTrailingSlashes(path)
             q == SubSeq(p, LastSep(p, Len(p)) + 1, Len(p))
         IN IF q = <<>> THEN Slash ELSE q

Dir(path) == Clean(SubSeq(path, 1, LastSep(path, Len(path))))

RelErr == <<"!">>

RECURSIVE CommonLen(_, _)
CommonLen(a, b) ==
    IF Len(a) = 0 \/ Len(b) = 0 \/ Head(a) # Head(b) THEN 0
    ELSE 1 + CommonLen(Tail(a), Tail(b))

\* filepath.Rel; RelErr stands for the error return
Rel(basepath, targpath) ==
    LET base == Clean(basepath)
        targ == Clean(targpath)
        bs == IF base = Dot THEN <<>> ELSE CleanSegs(Split(base), <<>>, FALSE)
        ts == IF targ = Dot THEN <<>> ELSE CleanSegs(Split(targ), <<>>, FALSE)
        n == CommonLen(bs, ts)
        brest == SubSeq(bs, n + 1, Len(bs))
        trest == SubSeq(ts, n + 1, Len(ts))
    IN IF targ = base THEN Dot
       ELSE IF (base[1] = Separator) # (targ[1] = Separator) THEN RelErr
       ELSE IF Len(brest) > 0 /\ brest[1] = DotDot THEN RelErr
       ELSE JoinSegs([i \in 1..Len(brest) |-> DotDot] \o trest)

RECURSIVE ReplaceAll(_, _, _)
ReplaceAll(s, old, new) ==
    IF Len(s) = 0 THEN <<>>
    ELSE (IF Head(s) = old THEN <<new>> ELSE <<Head(s)>>)
         \o ReplaceAll(Tail(s), old, new)

ToSlash(path) == IF Separator = "/" THEN path ELSE ReplaceAll(path, Separator, "/")


(* ------------------------------------------------------------------ *)
(* Inputs                                                             *)
(* ------------------------------------------------------------------ *)
\* values of -bucket
BucketNames == { <<>>, <<"b">> }

\* values of -object-key: single keys and prefixes, clean or not
ObjectKeys ==
    { <<>>, <<"k">>, <<"d", "/", "k">>, <<"d", "/", ".", ".">>,
      <<"p", "/">>, <<"p", "/", "/">> }

\* values of -path
LocalPaths == { <<>>, <<"o">>, <<"/", "o", "/">> }

\* what follows the prefix in the member keys of a listing, in the
\* lexicographic order in which ListObjectsV2 returns keys
Remainders ==
    << <<>>, <<".", ".", "/", "x">>, <<"a">>, <<"a", "/", "b">>, <<"b", "/", "c">> >>

\* the directory entry names of the local trees, in the sorted order in
\* which filepath.Walk reads a directory
Names == << <<"a">>, <<"b">>, <<"c">> >>

\* positions of the regular files of a local tree, relative to its root
RelFiles == { <<"a">>, <<"b", "/", "a">>, <<"b", "/", "c">> }

RootDirs == { Dot, Slash, DotDot }

(* ------------------------------------------------------------------ *)
(* State                                                              *)
(* ------------------------------------------------------------------ *)
VARIABLES
    download, upload, bucketName, objectKey, localPath,  \* the flags
    s3Contents,    \* member keys the bucket lists under the prefix
    s3Objects,     \* keys put into the bucket by this run
    dirs, files,   \* local filesystem: directories and regular files
    complete,      \* local files whose body was written to the end
    pc,            \* position of the process
    fatal,         \* which log.Fatalf ended the process, "" if none
    cause,         \* the error returned to main, "" if none
    objectKeys,    \* GetObjectsWithCseKms: the member list
    idx,           \* GetObjectsWithCseKms: position of the range loop
    localFilePath, \* GetObjectsWithCseKms: destination of the current item
    walkStack,     \* filepath.Walk: entries read but not yet visited
    curPath,       \* PutObjectsWithCseKms: path given to the callback
    openBodies,    \* response bodies not yet closed
    openFiles,     \* file handles not yet closed
    io,            \* kinds of I/O operation performed so far
    listCalls,     \* ListObjectsV2 calls made
    started,       \* sources of the items begun, in order
    finished,      \* [src, dst] of the items transferred to the end
    errors         \* errors raised so far

vars == << download, upload, bucketName, objectKey, localPath, s3Contents,
           s3Objects, dirs, files, complete, pc, fatal, cause, objectKeys,
           idx, localFilePath, walkStack, curPath, openBodies, openFiles,
           io, listCalls, started, finished, errors >>

flags == << download, upload, bucketName, objectKey, localPath, s3Contents >>

getLocals == << objectKeys, idx, localFilePath >>

putLocals == << walkStack, curPath >>

handles == << openBodies, openFiles >>

localFs == << dirs, files, complete >>

objectPrefix == objectKey

\* the listings of at most MaxItems member keys under prefix p
Listings(p) ==
    { SelectSeq([i \in 1..Len(Remainders) |-> p \o Remainders[i]],
                LAMBDA k : k \in {p \o Remainders[i] : i \in S}) :
      S \in {T \in SUBSET (1..Len(Remainders)) : Cardinality(T) <= MaxItems} }

\* the local trees rooted at root: nothing, one file, or a directory
\* holding at most MaxItems regular files
Trees(root) ==
    { [d |-> RootDirs, f |-> {}], [d |-> RootDirs, f |-> {root} \ RootDirs] }
    \cup { [d |-> RootDirs \cup {root} \cup {Dir(Join(root, r)) : r \in F},
            f |-> {Join(root, r) : r \in F}] :
           F \in {G \in SUBSET RelFiles : Cardinality(G) <= MaxItems} }

Init ==
    /\ download \in BOOLEAN
    /\ upload \in BOOLEAN
    /\ bucketName \in BucketNames
    /\ objectKey \in ObjectKeys
    /\ localPath \in LocalPaths
    /\ s3Contents \in IF download /\ ~upload /\ HasSuffix(objectKey, Slash)
                      THEN Listings(objectKey) ELSE { <<>> }
    /\ \E t \in IF upload /\ ~download
                THEN Trees(Clean(localPath))
                ELSE { [d |-> RootDirs, f |-> {}],
                       [d |-> RootDirs \cup {Clean(localPath)}, f |-> {}] } :
          /\ dirs = t.d
          /\ files = t.f
    /\ complete = files
    /\ s3Objects = {}
    /\ pc = "main"
    /\ fatal = ""
    /\ cause = ""
    /\ objectKeys = <<>>
    /\ idx = 0
    /\ localFilePath = <<>>
    /\ walkStack = <<>>
    /\ curPath = <<>>
    /\ openBodies = 0
    /\ openFiles = 0
    /\ io = {}
    /\ listCalls = 0
    /\ started = <<>>
    /\ finished = <<>>
    /\ errors = 0

(* ------------------------------------------------------------------ *)
(* main                                                               *)
(* ------------------------------------------------------------------ *)
\* a mode check that only rejects the run with neither flag
ModeSelected_EitherFlag(d, u) == d \/ u

\* the negation of the condition of line 33
ModeSelected(d, u) == ~((d /\ u) \/ (~d /\ ~u))

\* log.Fatalf: the process exits, the operating system closes its handles
Fatalf(msg) ==
    /\ pc' = "fatal"
    /\ fatal' = msg
    /\ openBodies' = 0
    /\ openFiles' = 0
    /\ errors' = errors + 1

ValidateModeOK ==
    /\ pc = "main"
    /\ ModeSelected(download, upload)
    /\ pc' = "load_config"
    /\ UNCHANGED << flags, s3Objects, localFs, fatal, cause, getLocals,
                    putLocals, handles, io, listCalls, started, finished,
                    errors >>

ValidateModeFatal ==
    /\ pc = "main"
    /\ ~ModeSelected(download, upload)
    /\ Fatalf("mode")
    /\ UNCHANGED << flags, s3Objects, localFs, cause, getLocals, putLocals,
                    io, listCalls, started, finished >>

LoadDefaultConfigOK ==
    /\ pc = "load_config"
    /\ io' = io \cup {"credentials"}
    /\ pc' = "new_client"
    /\ UNCHANGED << flags, s3Objects, localFs, fatal, cause, getLocals,
                    putLocals, handles, listCalls, started, finished, errors >>

LoadDefaultConfigFail ==
    /\ pc = "load_config"
    /\ io' = io \cup {"credentials"}
    /\ Fatalf("credential")
    /\ UNCHANGED << flags, s3Objects, localFs, cause, getLocals, putLocals,
                    listCalls, started, finished >>

\* NewCryptographicMaterialsManager and client.New succeed
NewClientOK ==
    /\ pc = "new_client"
    /\ pc' = "dispatch"
    /\ UNCHANGED << flags, s3Objects, localFs, fatal, cause, getLocals,
                    putLocals, handles, io, listCalls, started, finished,
                    errors >>

NewClientFail ==
    /\ pc = "new_client"
    /\ Fatalf("client")
    /\ UNCHANGED << flags, s3Objects, localFs, cause, getLocals, putLocals,
                    io, listCalls, started, finished >>

CallGetObjects ==
    /\ pc = "dispatch"
    /\ download
    /\ pc' = "get_enumerate"
    /\ UNCHANGED << flags, s3Objects, localFs, fatal, cause, getLocals,
                    putLocals, handles, io, listCalls, started, finished,
                    errors >>

CallPutObjects ==
    /\ pc = "dispatch"
    /\ ~download
    /\ upload
    /\ pc' = "put_walk"
    /\ walkStack' = << localPath >>
    /\ UNCHANGED << flags, s3Objects, localFs, fatal, cause, getLocals,
                    curPath, handles, io, listCalls, started, finished,
                    errors >>

\* a function returned err to main: its deferred closes run, main logs Fatalf
ReturnErr(msg, why) ==
    /\ cause' = why
    /\ Fatalf(msg)

\* a function returned nil to main, which falls off its end
ReturnNil ==
    /\ pc' = "exit0"
    /\ openBodies' = 0
    /\ openFiles' = 0

(* ------------------------------------------------------------------ *)
(* local filesystem primitives                                        *)
(* ------------------------------------------------------------------ *)
\* os.MkdirAll(p) meets a regular file on the chain it has to create
RECURSIVE MkdirAllBlocked(_, _, _)
MkdirAllBlocked(p, D, F) ==
    IF p \in D THEN FALSE
    ELSE IF p \in F THEN TRUE
    ELSE IF Dir(p) = p THEN FALSE
    ELSE MkdirAllBlocked(Dir(p), D, F)

\* the directories os.MkdirAll(p) creates
RECURSIVE MkdirAllNew(_, _)
MkdirAllNew(p, D) ==
    IF p \in D \/ Dir(p) = p THEN {}
    ELSE {p} \cup MkdirAllNew(Dir(p), D)

\* os.Create(p) cannot succeed: empty name, a directory, or no parent
CreateBlocked(p, D) == p = <<>> \/ p \in D \/ Dir(p) \notin D

\* os.Lstat(p) cannot succeed: empty name, nothing there, or a regular
\* file named with a trailing separator
LstatBlocked(p, D, F) ==
    \/ p = <<>>
    \/ Clean(p) \notin D \cup F
    \/ (Clean(p) \in F /\ HasSuffix(p, Slash))

\* the sorted names of the entries of directory p
ReadDirNames(p, D, F) == SelectSeq(Names, LAMBDA n : Join(p, n) \in D \cup F)

(* ------------------------------------------------------------------ *)
(* GetObjectsWithCseKms                                               *)
(* ------------------------------------------------------------------ *)
\* a mapping that takes the prefix branch for every request
LocalFilePathFor_AlwaysTrim(path, prefix, keys, key) ==
    Join(path, TrimPrefix(key, prefix))

\* lines 107-114: the destination of member key key
LocalFilePathFor(path, prefix, keys, key) ==
    IF HasSuffix(prefix, Slash) \/ Len(keys) > 1
    THEN Join(path, TrimPrefix(key, prefix))
    ELSE Join(path, Base(key))

ListObjectsV2OK ==
    /\ pc = "get_enumerate"
    /\ HasSuffix(objectPrefix, Slash)
    /\ bucketName # <<>>
    /\ io' = io \cup {"list"}
    /\ listCalls' = listCalls + 1
    /\ objectKeys' = s3Contents
    /\ pc' = "get_loop"
    /\ UNCHANGED << flags, s3Objects, localFs, fatal, cause, idx,
                    localFilePath, putLocals, handles, started, finished,
                    errors >>

ListObjectsV2Fail ==
    /\ pc = "get_enumerate"
    /\ HasSuffix(objectPrefix, Slash)
    /\ io' = io \cup {"list"}
    /\ listCalls' = listCalls + 1
    /\ ReturnErr("download", "ListObjectsV2")
    /\ UNCHANGED << flags, s3Objects, localFs, getLocals, putLocals, started,
                    finished >>

SingleObjectKey ==
    /\ pc = "get_enumerate"
    /\ ~HasSuffix(objectPrefix, Slash)
    /\ objectKeys' = << objectPrefix >>
    /\ pc' = "get_loop"
    /\ UNCHANGED << flags, s3Objects, localFs, fatal, cause, idx,
                    localFilePath, putLocals, handles, io, listCalls, started,
                    finished, errors >>

\* the range loop takes the next member key and maps it
GetNextKey ==
    /\ pc = "get_loop"
    /\ idx < Len(objectKeys)
    /\ idx' = idx + 1
    /\ localFilePath' = LocalFilePathFor(localPath, objectPrefix, objectKeys,
                                         objectKeys[idx + 1])
    /\ started' = Append(started, objectKeys[idx + 1])
    /\ pc' = "get_mkdir"
    /\ UNCHANGED << flags, s3Objects, localFs, fatal, cause, objectKeys,
                    putLocals, handles, io, listCalls, finished, errors >>

GetReturnNil ==
    /\ pc = "get_loop"
    /\ idx = Len(objectKeys)
    /\ ReturnNil
    /\ UNCHANGED << flags, s3Objects, localFs, fatal, cause, getLocals,
                    putLocals, io, listCalls, started, finished, errors >>

MkdirAllOK ==
    /\ pc = "get_mkdir"
    /\ ~MkdirAllBlocked(Dir(localFilePath), dirs, files)
    /\ dirs' = dirs \cup MkdirAllNew(Dir(localFilePath), dirs)
    /\ io' = io \cup {"mkdir"}
    /\ pc' = "get_object"
    /\ UNCHANGED << flags, s3Objects, files, complete, fatal, cause,
                    getLocals, putLocals, handles, listCalls, started,
                    finished, errors >>

MkdirAllFail ==
    /\ pc = "get_mkdir"
    /\ io' = io \cup {"mkdir"}
    /\ ReturnErr("download", "create directory")
    /\ UNCHANGED << flags, s3Objects, localFs, getLocals, putLocals,
                    listCalls, started, finished >>

GetObjectOK ==
    /\ pc = "get_object"
    /\ bucketName # <<>>
    /\ objectKeys[idx] # <<>>
    /\ io' = io \cup {"get"}
    /\ openBodies' = openBodies + 1
    /\ pc' = "get_create"
    /\ UNCHANGED << flags, s3Objects, localFs, fatal, cause, getLocals,
                    putLocals, openFiles, listCalls, started, finished,
                    errors >>

GetObjectFail ==
    /\ pc = "get_object"
    /\ io' = io \cup {"get"}
    /\ ReturnErr("download", "decrypting")
    /\ UNCHANGED << flags, s3Objects, localFs, getLocals, putLocals,
                    listCalls, started, finished >>

\* os.Create makes the file, or truncates the one that is there
CreateOK ==
    /\ pc = "get_create"
    /\ ~CreateBlocked(localFilePath, dirs)
    /\ files' = files \cup {localFilePath}
    /\ complete' = complete \ {localFilePath}
    /\ io' = io \cup {"create"}
    /\ openFiles' = openFiles + 1
    /\ pc' = "get_write"
    /\ UNCHANGED << flags, s3Objects, dirs, fatal, cause, getLocals,
                    putLocals, openBodies, listCalls, started, finished,
                    errors >>

CreateFail ==
    /\ pc = "get_create"
    /\ io' = io \cup {"create"}
    /\ ReturnErr("download", "create file")
    /\ UNCHANGED << flags, s3Objects, localFs, getLocals, putLocals,
                    listCalls, started, finished >>

ReadFromOK ==
    /\ pc = "get_write"
    /\ complete' = complete \cup {localFilePath}
    /\ io' = io \cup {"write"}
    /\ finished' = Append(finished, [src |-> objectKeys[idx],
                                     dst |-> localFilePath])
    /\ pc' = "get_loop"
    /\ UNCHANGED << flags, s3Objects, dirs, files, fatal, cause, getLocals,
                    putLocals, handles, listCalls, started, errors >>

\* a failed body copy that is logged and skipped
ReadFromFail_Skip ==
    /\ pc = "get_write"
    /\ io' = io \cup {"write"}
    /\ errors' = errors + 1
    /\ pc' = "get_loop"
    /\ UNCHANGED << flags, s3Objects, localFs, fatal, cause, getLocals,
                    putLocals, handles, listCalls, started, finished >>

\* reading the body (decryption included) or writing the file fails
ReadFromFail ==
    /\ pc = "get_write"
    /\ io' = io \cup {"write"}
    /\ ReturnErr("download", "write file")
    /\ UNCHANGED << flags, s3Objects, localFs, getLocals, putLocals,
                    listCalls, started, finished >>

GetObjectsWithCseKms ==
    \/ ListObjectsV2OK
    \/ ListObjectsV2Fail
    \/ SingleObjectKey
    \/ GetNextKey
    \/ GetReturnNil
    \/ MkdirAllOK
    \/ MkdirAllFail
    \/ GetObjectOK
    \/ GetObjectFail
    \/ CreateOK
    \/ CreateFail
    \/ ReadFromOK
    \/ ReadFromFail

(* ------------------------------------------------------------------ *)
(* PutObjectsWithCseKms                                               *)
(* ------------------------------------------------------------------ *)
\* lines 160-180: the object key of walked file path
ObjectKeyFor(basePath, prefix, path) ==
    LET relPath == Rel(basePath, path)
        rel == IF relPath = Dot THEN Base(path) ELSE relPath
    IN ToSlash(IF HasSuffix(prefix, Slash) THEN Join(prefix, rel) ELSE prefix)

\* Lstat of the next entry fails; the callback returns the error it is given
WalkLstatFail ==
    /\ pc = "put_walk"
    /\ walkStack # <<>>
    /\ io' = io \cup {"walk"}
    /\ ReturnErr("upload", "lstat")
    /\ UNCHANGED << flags, s3Objects, localFs, getLocals, putLocals,
                    listCalls, started, finished >>

\* the next entry is a directory: its names are read, the callback does
\* nothing, and its entries are walked next
WalkDir ==
    /\ pc = "put_walk"
    /\ walkStack # <<>>
    /\ ~LstatBlocked(Head(walkStack), dirs, files)
    /\ Clean(Head(walkStack)) \in dirs
    /\ LET path == Head(walkStack)
           names == ReadDirNames(path, dirs, files)
       IN walkStack' = [i \in 1..Len(names) |-> Join(path, names[i])]
                       \o Tail(walkStack)
    /\ io' = io \cup {"walk"}
    /\ UNCHANGED << flags, s3Objects, localFs, pc, fatal, cause, getLocals,
                    curPath, handles, listCalls, started, finished, errors >>

\* reading the names of a directory fails
WalkReadDirFail ==
    /\ pc = "put_walk"
    /\ walkStack # <<>>
    /\ ~LstatBlocked(Head(walkStack), dirs, files)
    /\ Clean(Head(walkStack)) \in dirs
    /\ io' = io \cup {"walk"}
    /\ ReturnErr("upload", "readdir")
    /\ UNCHANGED << flags, s3Objects, localFs, getLocals, putLocals,
                    listCalls, started, finished >>

\* the next entry is a regular file: the callback is entered with it
WalkFile ==
    /\ pc = "put_walk"
    /\ walkStack # <<>>
    /\ ~LstatBlocked(Head(walkStack), dirs, files)
    /\ Clean(Head(walkStack)) \in files
    /\ curPath' = Head(walkStack)
    /\ walkStack' = Tail(walkStack)
    /\ started' = Append(started, Head(walkStack))
    /\ io' = io \cup {"walk"}
    /\ pc' = "put_open"
    /\ UNCHANGED << flags, s3Objects, localFs, fatal, cause, getLocals,
                    handles, listCalls, finished, errors >>

WalkReturnNil ==
    /\ pc = "put_walk"
    /\ walkStack = <<>>
    /\ ReturnNil
    /\ UNCHANGED << flags, s3Objects, localFs, fatal, cause, getLocals,
                    putLocals, io, listCalls, started, finished, errors >>

OpenOK ==
    /\ pc = "put_open"
    /\ io' = io \cup {"open"}
    /\ openFiles' = openFiles + 1
    /\ pc' = "put_object"
    /\ UNCHANGED << flags, s3Objects, localFs, fatal, cause, getLocals,
                    putLocals, openBodies, listCalls, started, finished,
                    errors >>

OpenFail ==
    /\ pc = "put_open"
    /\ io' = io \cup {"open"}
    /\ ReturnErr("upload", "open")
    /\ UNCHANGED << flags, s3Objects, localFs, getLocals, putLocals,
                    listCalls, started, finished >>

\* the key is computed and the object put; the callback returns nil and
\* its deferred file.Close runs
PutObjectOK ==
    /\ pc = "put_object"
    /\ bucketName # <<>>
    /\ ObjectKeyFor(localPath, objectPrefix, curPath) \notin {RelErr, <<>>}
    /\ LET key == ObjectKeyFor(localPath, objectPrefix, curPath)
       IN /\ s3Objects' = s3Objects \cup {key}
          /\ finished' = Append(finished, [src |-> curPath, dst |-> key])
    /\ io' = io \cup {"put"}
    /\ openFiles' = openFiles - 1
    /\ pc' = "put_walk"
    /\ UNCHANGED << flags, localFs, fatal, cause, getLocals, putLocals,
                    openBodies, listCalls, started, errors >>

\* a failed put after which the walk goes on
PutObjectFail_Skip ==
    /\ pc = "put_object"
    /\ io' = io \cup {"put"}
    /\ errors' = errors + 1
    /\ openFiles' = openFiles - 1
    /\ pc' = "put_walk"
    /\ UNCHANGED << flags, s3Objects, localFs, fatal, cause, getLocals,
                    putLocals, openBodies, listCalls, started, finished >>

PutObjectFail ==
    /\ pc = "put_object"
    /\ io' = io \cup {"put"}
    /\ ReturnErr("upload", "upload")
    /\ UNCHANGED << flags, s3Objects, localFs, getLocals, putLocals,
                    listCalls, started, finished >>

PutObjectsWithCseKms ==
    \/ WalkLstatFail
    \/ WalkDir
    \/ WalkReadDirFail
    \/ WalkFile
    \/ WalkReturnNil
    \/ OpenOK
    \/ OpenFail
    \/ PutObjectOK
    \/ PutObjectFail

main ==
    \/ ValidateModeOK
    \/ ValidateModeFatal
    \/ LoadDefaultConfigOK
    \/ LoadDefaultConfigFail
    \/ NewClientOK
    \/ NewClientFail
    \/ CallGetObjects
    \/ CallPutObjects

Next == main \/ GetObjectsWithCseKms \/ PutObjectsWithCseKms

Spec == Init /\ [][Next]_vars

(* ------------------------------------------------------------------ *)
(* Properties                                                         *)
(* ------------------------------------------------------------------ *)
IsDownload == download /\ ~upload

IsUpload == upload /\ ~download

IsPrefix == HasSuffix(objectPrefix, Slash)

Terminal == {"exit0", "fatal"}

\* the bucket, the object key and the local path are all given
IdentifiersGiven == bucketName # <<>> /\ objectKey # <<>> /\ localPath # <<>>

\* the operations on the bucket and on the local filesystem
TransferIO == {"list", "get", "put", "walk", "mkdir", "create", "write", "open"}

Range(seq) == {seq[i] : i \in 1..Len(seq)}

\* destination of the i-th member key of the download
DestOf(i) == LocalFilePathFor(localPath, objectPrefix, objectKeys, objectKeys[i])

\* f lies inside directory base and is not base itself
Inside(base, f) ==
    LET b == Clean(base)
    IN IF b = Dot
       THEN /\ f \notin {<<>>, Dot, DotDot}
            /\ f[1] # Separator
            /\ ~HasPrefix(f, DotDot \o Slash)
       ELSE IF b = Slash THEN Len(f) > 1 /\ f[1] = Separator
       ELSE HasPrefix(f, b \o Slash) /\ Len(f) > Len(b) + 1

\* C1: the run goes past the mode check only when exactly one of download
\* and upload is set; with both or neither it ends in the mode error, and
\* no I/O operation (credential loading included) was performed before it.
C1_ModeValidatedBeforeIO ==
    /\ (pc # "main" /\ fatal # "mode") => (download # upload)
    /\ (pc # "main" /\ download = upload)
          => (pc = "fatal" /\ fatal = "mode" /\ io = {})

C1_Witness ==
    /\ pc = "fatal"
    /\ fatal = "mode"
    /\ download
    /\ upload
    /\ io = {}

\* C2: a run with an empty bucket, object key or path ends with a fatal
\* configuration error, and no listing, get, put, walk, directory or file
\* creation is performed before it.
C2_MissingIdentifierIsConfigError ==
    (ModeSelected(download, upload)
       /\ (bucketName = <<>> \/ objectKey = <<>> \/ localPath = <<>>))
    => /\ io \cap TransferIO = {}
       /\ pc # "exit0"
       /\ fatal \notin {"download", "upload"}

\* C3: a download whose key does not end with "/" makes no listing call,
\* produces exactly one transfer item, and writes it to
\* Join(localPath, Base(key)) however many segments the key has.
C3_SingleKeyDownload ==
    (IsDownload /\ ~IsPrefix) =>
       /\ listCalls = 0
       /\ "list" \notin io
       /\ Len(started) <= 1
       /\ (pc \notin {"main", "load_config", "new_client", "dispatch",
                      "get_enumerate", "fatal"}) => Len(objectKeys) = 1
       /\ (pc \in {"get_mkdir", "get_object", "get_create", "get_write"})
             => localFilePath = Join(localPath, Base(objectKey))
       /\ \A i \in 1..Len(finished) :
             /\ finished[i].src = objectKey
             /\ finished[i].dst = Join(localPath, Base(objectKey))
             /\ finished[i].dst \in files
       /\ (pc = "exit0") => Len(finished) = 1

C3_Witness ==
    /\ IsDownload
    /\ objectKey = <<"d", "/", "k">>
    /\ localPath = <<"/", "o", "/">>
    /\ pc = "exit0"
    /\ finished = << [src |-> <<"d", "/", "k">>, dst |-> <<"/", "o", "/", "k">>] >>
    /\ <<"/", "o", "/", "k">> \in files

\* C4: in a download of a prefix, every member key the listing returns,
\* a member key equal to the prefix included, is written to the file
\* Join(localPath, key without the prefix), whose parent directories exist
\* before the file is created: the destination the mapping gives a member
\* key is never one that cannot be made a file.
C4_EveryMemberWritten ==
    (IsDownload /\ IsPrefix /\ IdentifiersGiven) =>
       /\ \A i \in 1..Len(finished) :
             /\ finished[i].dst = Join(localPath, TrimPrefix(finished[i].src, objectPrefix))
             /\ finished[i].dst \in files
       /\ (pc \in {"get_create", "get_write"}) => Dir(localFilePath) \in dirs
       /\ ~(pc = "fatal" /\ cause = "create directory"
             /\ MkdirAllBlocked(Dir(localFilePath), dirs, files))
       /\ ~(pc = "fatal" /\ cause = "create file"
             /\ CreateBlocked(localFilePath, dirs))

\* C5: in an upload to a prefix, every walked regular file is put to the
\* key made of the prefix string followed by the path of the file relative
\* to the base path (by its base name when the base path is the file), for
\* every prefix string ending in "/".
C5_KeyIsPrefixThenRel ==
    (IsUpload /\ IsPrefix /\ IdentifiersGiven) =>
       \A i \in 1..Len(finished) :
          LET f == finished[i].src
              rel == IF Clean(localPath) \in files THEN Base(f)
                     ELSE Rel(localPath, f)
          IN /\ finished[i].dst = objectPrefix \o rel
             /\ "\\" \notin Range(finished[i].dst)

\* the keys or paths written so far by the items before the k-th
EarlierDests(k) == {finished[j].dst : j \in 1..Len(finished)}

\* C6: when a failure occurs while item k is transferred, the run halts in
\* failure with items 1..k-1 present at their destinations, items k..N
\* absent from theirs, and nothing done for items k+1..N.
C6_FailedItemAbsent ==
    (pc = "fatal" /\ fatal \in {"download", "upload"} /\ IdentifiersGiven
       /\ cause \notin {"ListObjectsV2", "lstat", "readdir"}) =>
       LET k == Len(started)
       IN /\ Len(finished) = k - 1
          /\ IsDownload =>
                /\ \A j \in 1..(k - 1) : DestOf(j) \in complete
                /\ \A j \in k..Len(objectKeys) :
                      DestOf(j) \notin EarlierDests(k) => DestOf(j) \notin files
          /\ IsUpload =>
                /\ \A j \in 1..(k - 1) : finished[j].dst \in s3Objects
                /\ s3Objects = EarlierDests(k)

\* C7: a run reports success only if every member key (download) or every
\* regular file of the tree (upload) was transferred to the end; it
\* succeeds without a transfer only when the enumeration is empty.
C7_SuccessMeansAllTransferred ==
    (pc = "exit0") =>
       /\ IsDownload =>
             /\ objectKeys = IF IsPrefix THEN s3Contents ELSE << objectKey >>
             /\ Len(finished) = Len(objectKeys)
             /\ \A i \in 1..Len(objectKeys) :
                   /\ finished[i].src = objectKeys[i]
                   /\ finished[i].dst \in complete
             /\ (finished = <<>>) => (IsPrefix /\ s3Contents = <<>>)
       /\ IsUpload =>
             /\ {Clean(finished[i].src) : i \in 1..Len(finished)} = files
             /\ \A i \in 1..Len(finished) : finished[i].dst \in s3Objects
             /\ (finished = <<>>) => (files = {})

C7_Witness ==
    /\ pc = "exit0"
    /\ Len(finished) = 2
    /\ errors = 0

\* C8 as stated: the whole member set is enumerated, and any enumeration
\* error reported, before the transfer of the first item begins.
C8_EnumerationBeforeTransfer ==
    /\ (IsDownload /\ started # <<>>)
          => objectKeys = IF IsPrefix THEN s3Contents ELSE << objectKey >>
    /\ (IsUpload /\ IdentifiersGiven /\ started # <<>>) => walkStack = <<>>
    /\ ~(pc = "fatal" /\ IdentifiersGiven
          /\ cause \in {"ListObjectsV2", "lstat", "readdir"}
          /\ finished # <<>>)

C8_StateOrder ==
    /\ (IsDownload /\ (started # <<>> \/ pc = "get_loop")) =>
          /\ objectKeys = IF IsPrefix THEN s3Contents ELSE << objectKey >>
          /\ listCalls = IF IsPrefix THEN 1 ELSE 0
    /\ (pc = "get_enumerate") => started = <<>>
    /\ IsDownload => started = SubSeq(objectKeys, 1, idx)
    /\ \A i, j \in 1..Len(started) : started[i] = started[j] => i = j
    /\ Len(finished) <= Len(started)
    /\ \A i \in 1..Len(finished) : finished[i].src = started[i]
    /\ (pc \in {"get_loop", "put_walk", "exit0"}) => Len(finished) = Len(started)
    /\ (pc \notin Terminal) => Len(started) - Len(finished) <= 1
    /\ (errors > 0) => (pc = "fatal" /\ errors = 1)
    /\ (pc = "exit0") => fatal = ""

\* C8 (amended): a download lists the whole member set before its first
\* item; an upload transfers each regular file when the walk visits it,
\* before later entries are read.  In both, items are taken one at a time
\* and none twice, the first error moves the run to the terminal failed
\* state, and no step is taken from a terminal state.
C8_PhaseOrder == []C8_StateOrder /\ [][pc \notin Terminal]_vars

\* an upload in which the walk fails after an item was transferred
C8_Witness ==
    /\ IsUpload
    /\ IdentifiersGiven
    /\ pc = "fatal"
    /\ cause = "lstat"
    /\ Len(finished) >= 1

\* C9: when the processing of the next item begins, every file handle and
\* response body opened for the earlier items has been closed, so the
\* number of open handles does not grow with the number of items.
C9_HandlesReleasedPerItem ==
    IdentifiersGiven =>
       /\ (pc \in {"get_mkdir", "put_open"}) => (openBodies = 0 /\ openFiles = 0)
       /\ openBodies <= 1
       /\ openFiles <= 1

\* C10: every file a download creates lies inside the local base path; it
\* is never the base path itself nor a path outside it.
C10_DestinationInsideBase ==
    (IsDownload /\ IdentifiersGiven) => \A f \in files : Inside(localPath, f)

====
